---- MODULE Spec2Model ----
(***************************************************************************)
(* Model of stream-cpp (src/stream.h): StreamImpl<T>, a wrapper around a   *)
(* C++20 range `View`, with combinators that compose std::views adaptors   *)
(* and terminal operations that traverse the composed view.                *)
(*                                                                         *)
(* A Stream is modelled as a source sequence plus the chain of view        *)
(* adaptors laid over it.  Stage d of the chain is the adaptor that the    *)
(* d-th StreamImpl object holds over the view of object d-1; object 0 is   *)
(* the one built by Stream::of / Stream::range.  Three things are computed *)
(* for every view: its elements, the user-function invocations that each   *)
(* iterator operation (begin, increment, dereference) performs, and the    *)
(* StreamImpl objects it points into.  The adaptors behave as the C++      *)
(* standard specifies them ([range.adaptors]); where the standard leaves   *)
(* the behaviour undefined, every outcome a build can produce is allowed.  *)
(***************************************************************************)
EXTENDS Integers, Sequences, FiniteSets

\* ------------------------------------------------------------- bounds
\* Longest input collection handed to Stream::of.
MaxLen == 3
\* Most combinator calls in one chain.
MaxChain == 2
\* Width of `int` in the model of Stream::range (the program's int is wider;
\* the arithmetic wraps the same way at any width).
IntBits == 3

\* Values of the input elements, and the tokens and values searched for.
Vals == {1, 2}
\* Counts handed to Take.
TakeCounts == {0, 1, 2}
\* Sizes handed to ChunkEvery (positive: the code divides by the size).
ChunkSizes == {1, 2}
\* Bounds handed to Stream::range in chains.
RangeBegins == {1, 2}
RangeEnds == {0, 1, 2}

RECURSIVE SeqsUpTo(_, _)
SeqsUpTo(S, n) ==
    IF n = 0 THEN {<<>>}
    ELSE LET shorter == SeqsUpTo(S, n - 1)
         IN shorter \cup {Append(q, x) : q \in {r \in shorter : Len(r) = n - 1}, x \in S}

\* The collections a caller may hand to Stream::of.
InputSeqs == SeqsUpTo(Vals, MaxLen)

\* User-supplied functions: the lambdas of src/stream.cxx, by name.
MapFns == {"dbl"}
PredFns == {"even", "lt2"}
\* The function handed to Each: it only records that it was called.
EachFn == "rec"

\* ------------------------------------------------------------- helpers
RECURSIVE Concat(_)
Concat(ss) == IF ss = <<>> THEN <<>> ELSE Head(ss) \o Concat(Tail(ss))

RECURSIVE SumSeq(_)
SumSeq(q) == IF q = <<>> THEN 0 ELSE Head(q) + SumSeq(Tail(q))

SmallerOf(a, b) == IF a < b THEN a ELSE b

\* ------------------------------------------------------------- user functions
\* Value of a user-supplied map function or predicate on an int.
ApplyFn(fn, x) ==
    CASE fn = "dbl" -> x * 2
      [] fn = "even" -> x % 2 = 0
      [] fn = "lt2" -> x < 2

\* ------------------------------------------------------------- stages
\* One view adaptor of the chain.  op: the std::views adaptor ("transform",
\* "filter", "take", "split", "keys", "values", or "index" / "chunk" for the
\* iota | transform views of WithIndex / ChunkEvery); fn: the function it
\* holds; neg: the predicate is negated (Reject); n: its count or token;
\* recv: the chain position of the StreamImpl whose `this` the adaptor's
\* lambda captured (0 when it captures none); call: the number of the
\* combinator call that added it.
Stage(op, fn, neg, n, recv, call) ==
    [n |-> n, fn |-> fn, op |-> op, neg |-> neg, recv |-> recv, call |-> call]

\* Names of the lambdas the library itself passes to Map / Reject.
EachLambda == "each"
UniqCountLambda == "uniqCount"
UniqDupLambda == "uniqDup"
UniqValueLambda == "uniqValue"

\* ------------------------------------------------------------- elements of a view
\* std::ranges::count(View, Value).
CountValueElems(up, v) == Cardinality({i \in 1..Len(up) : up[i] = v})

\* View | std::views::take(Count).
TakeElems(up, n) == SubSeq(up, 1, SmallerOf(n, Len(up)))

\* The first lambda of Uniq: (Index, Value) -> (Take(Index).Count(Value), Value),
\* where Take and Count are those of the receiver R of Uniq.
UniqCountPair(R, p) == <<CountValueElems(TakeElems(R, p[1]), p[2]), p[2]>>

\* Mutant of UniqIsDup: the comparison is off by one.
UniqIsDupOffByOne(p) == p[1] > 1

\* The second lambda of Uniq, handed to Reject: (Count, Value) -> Count > 0.
UniqIsDup(p) == p[1] > 0

\* View | std::views::transform(Func), element by element.
TransformElem(fn, R, x) ==
    CASE fn = EachLambda -> x
      [] fn = UniqCountLambda -> UniqCountPair(R, x)
      [] fn = UniqValueLambda -> x[2]
      [] OTHER -> ApplyFn(fn, x)

\* What the predicate held by a filter stage answers on x.
PredHolds(st, x) ==
    LET v == IF st.fn = UniqDupLambda THEN UniqIsDup(x) ELSE ApplyFn(st.fn, x)
    IN IF st.neg THEN ~v ELSE v

\* Upstream positions that View | std::views::filter(Func) keeps.
FilterKeeps(st, up) == SelectSeq([i \in 1..Len(up) |-> i], LAMBDA i : PredHolds(st, up[i]))

\* WithIndex: iota(0, Count()) | transform(Index -> pair(Index, *next(View.begin(), Index))).
WithIndexElems(R) == [i \in 1..Len(R) |-> <<i - 1, R[i]>>]

\* Mutant of ChunkCount: the division is not rounded up.
ChunkCountTruncated(len, Count) == len \div Count

\* Number of chunks: (distance(View) + Count - 1) / Count.
ChunkCount(len, Count) == (len + Count - 1) \div Count

\* Chunk Index (from 0) of ChunkEvery(Count): subrange(Begin, End) with
\* Begin = begin + Index * Count and End = Begin + min(Count, end - Begin).
ChunkAt(R, Count, Index) ==
    LET Begin == Index * Count
        End == Begin + SmallerOf(Count, Len(R) - Begin)
    IN SubSeq(R, Begin + 1, End)

ChunkEveryElems(R, Count) ==
    [k \in 1..ChunkCount(Len(R), Count) |-> ChunkAt(R, Count, k - 1)]

\* std::views::split(Token) ([range.split]): positions run over 1..Len(up)+1,
\* the last being end.  find-next: the first occurrence of the one-element
\* pattern at or after `it`, as the pair (begin, end) of the match.
RECURSIVE SplitFindNext(_, _, _)
SplitFindNext(up, Token, it) ==
    IF it > Len(up) THEN <<Len(up) + 1, Len(up) + 1>>
    ELSE IF up[it] = Token THEN <<it, it + 1>>
    ELSE SplitFindNext(up, Token, it + 1)

\* The groups from the split iterator (cur, next, trailing_empty) onwards:
\* the iterator equals end() when cur is end and trailing_empty is false;
\* dereferencing gives [cur, next.begin); increment moves cur past the match.
RECURSIVE SplitFrom(_, _, _, _, _)
SplitFrom(up, Token, cur, next, trailing) ==
    LET end == Len(up) + 1
        group == SubSeq(up, cur, next[1] - 1)
    IN IF cur = end /\ ~trailing THEN <<>>
       ELSE IF next[1] = end THEN <<group>>
       ELSE IF next[2] = end THEN <<group>> \o SplitFrom(up, Token, end, <<end, end>>, TRUE)
       ELSE <<group>> \o SplitFrom(up, Token, next[2], SplitFindNext(up, Token, next[2]), FALSE)

\* Mutant of SplitElems: a trailing empty group is not produced.
SplitElemsNoTrailing(up, Token) ==
    LET g == SplitFrom(up, Token, 1, SplitFindNext(up, Token, 1), FALSE)
    IN IF g # <<>> /\ g[Len(g)] = <<>> THEN SubSeq(g, 1, Len(g) - 1) ELSE g

\* The groups of View | std::views::split(Token), from begin().
SplitElems(up, Token) == SplitFrom(up, Token, 1, SplitFindNext(up, Token, 1), FALSE)

\* Elements of the view that stage st lays over a view with elements up,
\* R being the elements of the view of the object st.recv.
StageElems(st, up, R) ==
    CASE st.op = "transform" -> [i \in 1..Len(up) |-> TransformElem(st.fn, R, up[i])]
      [] st.op = "filter" -> LET keep == FilterKeeps(st, up)
                             IN [i \in 1..Len(keep) |-> up[keep[i]]]
      [] st.op = "take" -> TakeElems(up, st.n)
      [] st.op = "split" -> SplitElems(up, st.n)
      [] st.op = "keys" -> [i \in 1..Len(up) |-> up[i][1]]
      [] st.op = "values" -> [i \in 1..Len(up) |-> up[i][2]]
      [] st.op = "index" -> WithIndexElems(R)
      [] st.op = "chunk" -> ChunkEveryElems(R, st.n)

\* Elements of the views of objects 0..Len(c) of chain c over source s: the
\* view of object d is entry d + 1.
RECURSIVE ViewsFrom(_, _)
ViewsFrom(c, acc) ==
    IF Len(acc) > Len(c) THEN acc
    ELSE LET st == c[Len(acc)]
         IN ViewsFrom(c, Append(acc, StageElems(st, acc[Len(acc)], acc[st.recv + 1])))

Views(s, c) == ViewsFrom(c, <<s>>)

\* Elements of the view held by StreamImpl object d of chain c over source s.
Elems(s, c, d) == Views(s, SubSeq(c, 1, d))[d + 1]

\* Element type of that view: "int", "pair" (WithIndex) or "group"
\* (a subrange, from SplitBy / ChunkEvery).
RECURSIVE ElemType(_, _)
ElemType(c, d) ==
    IF d = 0 THEN "int"
    ELSE LET st == c[d]
         IN CASE st.op = "transform" ->
                   IF st.fn = UniqCountLambda THEN "pair"
                   ELSE IF st.fn = UniqValueLambda THEN "int"
                   ELSE ElemType(c, d - 1)
              [] st.op \in {"filter", "take"} -> ElemType(c, d - 1)
              [] st.op \in {"split", "chunk"} -> "group"
              [] st.op \in {"keys", "values"} -> "int"
              [] st.op = "index" -> "pair"

\* ------------------------------------------------------------- invocation logs
\* One invocation of a user-supplied function: the stage holding it, its
\* name and its argument.
Call(d, fn, x) == [fn |-> fn, stage |-> d, arg |-> x]

\* Positions of Token in up, in order.
TokenPositions(up, Token) == SelectSeq([i \in 1..Len(up) |-> i], LAMBDA i : up[i] = Token)

\* std::ranges::sized_range of the view of object d: filter_view and
\* split_view are never sized; the other adaptors are when their base is;
\* vectors and iota_view of integers are.
RECURSIVE Sized(_, _)
Sized(c, d) ==
    IF d = 0 THEN TRUE
    ELSE CASE c[d].op \in {"filter", "split"} -> FALSE
           [] c[d].op \in {"index", "chunk"} -> TRUE
           [] OTHER -> Sized(c, d - 1)

\* User-function invocations of one iterator operation on the view of
\* object d.  what = "deref": *it at element i; "step": ++it from element i;
\* "begin": begin() on a copy of the view that has no cached begin; "scan":
\* filter_view's find_if from upstream position i; "search": split_view's
\* search from upstream position i; "steps": ++it over elements i..j; "walk":
\* the loop for (; first != last; ++first) reading elements i..j; "lambda":
\* the call of the stage's function on upstream element i.  V holds the
\* elements of the views of all objects of the chain (Views).
RECURSIVE IterLog(_, _, _, _, _, _)
IterLog(what, V, c, d, i, j) ==
    IF d = 0 \/ (what \in {"steps", "walk"} /\ j < i) THEN <<>>
    ELSE
    LET st == c[d]
        up == V[d]
        r == st.recv
        rlen == Len(V[r + 1])
    IN
    CASE what = "steps" ->
           IterLog("step", V, c, d, i, 0) \o IterLog("steps", V, c, d, i + 1, j)
      [] what = "walk" ->
           IterLog("deref", V, c, d, i, 0) \o IterLog("step", V, c, d, i, 0)
              \o IterLog("walk", V, c, d, i + 1, j)
      [] what = "lambda" ->
           (CASE st.fn = EachLambda -> <<Call(d, EachFn, up[i])>>
              [] st.fn = UniqValueLambda -> <<>>
              [] st.fn = UniqCountLambda ->
                   \* Take(Index).Count(Value) on the receiver: a fresh take
                   \* view over the receiver's View, walked by std::ranges::count.
                   IterLog("begin", V, c, r, 0, 0)
                      \o IterLog("walk", V, c, r, 1, SmallerOf(up[i][1], rlen))
              [] OTHER -> <<Call(d, st.fn, up[i])>>)
      [] what = "scan" ->
           IF i > Len(up) THEN <<>>
           ELSE IterLog("deref", V, c, d - 1, i, 0)
                \o (IF st.fn = UniqDupLambda THEN <<>> ELSE <<Call(d, st.fn, up[i])>>)
                \o (IF PredHolds(st, up[i]) THEN <<>>
                    ELSE IterLog("step", V, c, d - 1, i, 0) \o IterLog("scan", V, c, d, i + 1, 0))
      [] what = "search" ->
           IF i > Len(up) THEN <<>>
           ELSE IterLog("deref", V, c, d - 1, i, 0) \o IterLog("step", V, c, d - 1, i, 0)
                \o (IF up[i] = st.n THEN <<>> ELSE IterLog("search", V, c, d, i + 1, 0))
      [] what = "begin" ->
           (CASE st.op = "filter" -> IterLog("begin", V, c, d - 1, 0, 0) \o IterLog("scan", V, c, d, 1, 0)
              [] st.op = "split" -> IterLog("begin", V, c, d - 1, 0, 0) \o IterLog("search", V, c, d, 1, 0)
              [] st.op \in {"index", "chunk"} -> <<>>
              [] OTHER -> IterLog("begin", V, c, d - 1, 0, 0))
      [] what = "step" ->
           (CASE st.op = "filter" ->
                   LET u == FilterKeeps(st, up)[i]
                   IN IterLog("step", V, c, d - 1, u, 0) \o IterLog("scan", V, c, d, u + 1, 0)
              [] st.op = "split" ->
                   LET tp == TokenPositions(up, st.n)
                   IN IF i <= Len(tp) /\ tp[i] < Len(up)
                      THEN IterLog("search", V, c, d, tp[i] + 1, 0)
                      ELSE <<>>
              [] st.op \in {"index", "chunk"} -> <<>>
              [] OTHER -> IterLog("step", V, c, d - 1, i, 0))
      [] what = "deref" ->
           (CASE st.op = "transform" ->
                   IterLog("deref", V, c, d - 1, i, 0) \o IterLog("lambda", V, c, d, i, 0)
              [] st.op = "filter" -> IterLog("deref", V, c, d - 1, FilterKeeps(st, up)[i], 0)
              [] st.op = "split" -> <<>>
              [] st.op = "index" ->
                   \* *std::next(View.begin(), Index): begin() is the one the
                   \* receiver cached when WithIndex called Count().
                   IterLog("steps", V, c, r, 1, i - 1) \o IterLog("deref", V, c, r, i, 0)
              [] st.op = "chunk" ->
                   \* Begin = next(begin, Index * Count); distance(Begin, end);
                   \* End = next(Begin, min(Count, distance)).  No dereference.
                   LET Begin == (i - 1) * st.n
                       End == Begin + SmallerOf(st.n, rlen - Begin)
                   IN IterLog("steps", V, c, r, 1, Begin)
                      \o (IF Sized(c, r) THEN <<>> ELSE IterLog("steps", V, c, r, Begin + 1, rlen))
                      \o IterLog("steps", V, c, r, Begin + 1, End)
              [] OTHER -> IterLog("deref", V, c, d - 1, i, 0))

\* std::ranges::distance(View): size() when the view is sized, else begin()
\* and one step per element (no dereference at this level).
DistanceLog(V, c, d) ==
    IF Sized(c, d) THEN <<>>
    ELSE IterLog("begin", V, c, d, 0, 0) \o IterLog("steps", V, c, d, 1, Len(V[d + 1]))

\* A full pass that reads every element: std::ranges::copy, std::ranges::count
\* and std::accumulate over the view of object d.
TraverseLog(V, c, d) ==
    IterLog("begin", V, c, d, 0, 0) \o IterLog("walk", V, c, d, 1, Len(V[d + 1]))

\* ------------------------------------------------------------- lifetimes
\* The StreamImpl objects that must still exist for the view of object d to
\* be traversed.  `View | adaptor` stores views::all(View): a copy when View
\* is itself a view, a ref_view pointing at the receiver's member when View
\* is a container (object 0 of Stream::of).  The lambdas of WithIndex,
\* ChunkEvery and Uniq capture `this`, the receiver.
RECURSIVE Needs(_, _, _)
Needs(owning, c, d) ==
    IF d = 0 THEN {}
    ELSE LET st == c[d]
             base == IF d = 1 /\ owning THEN {0} ELSE Needs(owning, c, d - 1)
         IN CASE st.op \in {"index", "chunk"} -> {st.recv} \cup Needs(owning, c, st.recv)
              [] st.op = "transform" /\ st.fn = UniqCountLambda ->
                   base \cup {st.recv} \cup Needs(owning, c, st.recv)
              [] OTHER -> base

\* ------------------------------------------------------------- int and Stream::range
IntMax == 2 ^ (IntBits - 1) - 1
IntMin == -(2 ^ (IntBits - 1))
Ints == IntMin..IntMax

\* Stream::range(Begin, End): std::views::iota(Begin, End + 1).  End + 1
\* overflows int when End is the largest int.
RangeView(Begin, End) == [value |-> Begin, bound |-> End + 1, overflow |-> End = IntMax]

\* iota_view(value, bound) requires bound to be reachable from value.
IotaDefined(v) == ~v.overflow /\ v.value <= v.bound

IotaElems(v) == [i \in 1..(v.bound - v.value) |-> v.value + i - 1]

\* What a build may yield for an iota_view whose bound is not reachable:
\* the bound after wrap-around, and the walk from value up through the
\* largest int and round to the bound.
WrapInt(x) == ((x - IntMin) % (2 ^ IntBits)) + IntMin
WrappedElems(v) ==
    LET n == (WrapInt(v.bound) - v.value) % (2 ^ IntBits)
    IN [i \in 1..n |-> WrapInt(v.value + i - 1)]

\* ------------------------------------------------------------- terminal operations
\* A terminal call: its name, the predicate it was given (All, Any) and the
\* value it was given (Count(Value), Contains).
Term(op, fn, n) == [n |-> n, fn |-> fn, op |-> op]

\* How a terminal call ends: "value" (it returned val), "void" (Run
\* returned), "error" (an exception reached the caller) or "crash" (the
\* process died or misbehaved without an exception).
Returned(v) == [kind |-> "value", val |-> v]
Void == [kind |-> "void", val |-> 0]
Error == [kind |-> "error", val |-> 0]
Crash == [kind |-> "crash", val |-> 0]
NoResult == [kind |-> "none", val |-> 0]

\* The chain with the filter stage that All / Any lay over the receiver.
WithFilter(c, Func) == Append(c, Stage("filter", Func, FALSE, 0, 0, 0))

\* Collect: std::ranges::copy(View, back_inserter(Result)).
CollectValue(s, c) == Elems(s, c, Len(c))

\* Count(): std::ranges::distance(View).
CountAll(s, c) == Len(Elems(s, c, Len(c)))

\* Count(Value): std::ranges::count(View, Value).
CountValue(s, c, Value) == CountValueElems(Elems(s, c, Len(c)), Value)

\* Contains(Value): Count(Value) > 0.
ContainsValue(s, c, Value) == CountValue(s, c, Value) > 0

\* Mutant of AllValue: an empty view does not count as all.
AllValueNonEmpty(s, c, Func) ==
    CountAll(s, c) > 0 /\ CountAll(s, c) = CountAll(s, WithFilter(c, Func))

\* All(Func): Count() == Filter(Func).Count().
AllValue(s, c, Func) == CountAll(s, c) = CountAll(s, WithFilter(c, Func))

\* Any(Func): Filter(Func).Count() > 0.
AnyValue(s, c, Func) == CountAll(s, WithFilter(c, Func)) > 0

\* Sum(): std::accumulate(View.begin(), View.end(), 0).
SumValue(s, c) == SumSeq(Elems(s, c, Len(c)))

\* Position std::ranges::min_element / max_element returns: the first least
\* (greatest) element, or end (Len + 1) on an empty view.
RECURSIVE BestPos(_, _, _, _)
BestPos(e, least, i, best) ==
    IF i > Len(e) THEN best
    ELSE LET better == IF least THEN e[i] < e[best] ELSE e[best] < e[i]
         IN BestPos(e, least, i + 1, IF better THEN i ELSE best)

MinMaxPos(e, least) == IF e = <<>> THEN 1 ELSE BestPos(e, least, 2, 1)

\* Positions of the receiver's view that min_element / max_element and the
\* final dereference in Min / Max read, in order.
RECURSIVE BestReads(_, _, _, _)
BestReads(e, least, i, best) ==
    IF i > Len(e) THEN <<best>>
    ELSE LET better == IF least THEN e[i] < e[best] ELSE e[best] < e[i]
         IN <<i, best>> \o BestReads(e, least, i + 1, IF better THEN i ELSE best)

MinMaxReads(e, least) == IF e = <<>> THEN <<1>> ELSE BestReads(e, least, 2, 1)

\* Values an out-of-range read may produce.
Garbage == {0} \cup Vals

\* The ways a terminal call on chain c can end when object 0 holds s.
\* Min / Max dereference whatever min_element returned, end included.
TermOutcomes(t, s, c) ==
    LET e == Elems(s, c, Len(c))
    IN CASE t.op = "Collect" -> {Returned(CollectValue(s, c))}
         [] t.op = "Run" -> {Void}
         [] t.op = "Sum" -> {Returned(SumValue(s, c))}
         [] t.op = "Count" -> {Returned(CountAll(s, c))}
         [] t.op = "CountValue" -> {Returned(CountValue(s, c, t.n))}
         [] t.op = "Contains" -> {Returned(ContainsValue(s, c, t.n))}
         [] t.op = "All" -> {Returned(AllValue(s, c, t.fn))}
         [] t.op = "Any" -> {Returned(AnyValue(s, c, t.fn))}
         [] t.op \in {"Min", "Max"} ->
              IF e = <<>> THEN {Crash} \cup {Returned(v) : v \in Garbage}
              ELSE {Returned(e[MinMaxPos(e, t.op = "Min")])}

\* Positions of the receiver's view that the terminal call dereferences.
TermReads(t, s, c) ==
    LET e == Elems(s, c, Len(c))
    IN CASE t.op = "Count" -> <<>>
         [] t.op \in {"Min", "Max"} -> MinMaxReads(e, t.op = "Min")
         [] OTHER -> [i \in 1..Len(e) |-> i]

\* User-function invocations of the terminal call, in each order the
\* language allows (the operands of == in All are unsequenced).  min_element
\* and max_element step over every element and read the positions of
\* MinMaxReads.
TermLogs(t, s, c) ==
    LET top == Len(c)
        V == Views(s, c)
        f == WithFilter(c, t.fn)
        VF == Views(s, f)
        reads == MinMaxReads(V[top + 1], t.op = "Min")
    IN CASE t.op \in {"Collect", "Run", "Sum", "CountValue", "Contains"} ->
              {TraverseLog(V, c, top)}
         [] t.op = "Count" -> {DistanceLog(V, c, top)}
         [] t.op = "Any" -> {DistanceLog(VF, f, top + 1)}
         [] t.op = "All" -> LET all == DistanceLog(V, c, top)
                                kept == DistanceLog(VF, f, top + 1)
                            IN {all \o kept, kept \o all}
         [] t.op \in {"Min", "Max"} ->
              {IterLog("begin", V, c, top, 0, 0)
                 \o IterLog("steps", V, c, top, 1, Len(V[top + 1]))
                 \o (IF V[top + 1] = <<>> THEN <<>>
                     ELSE Concat([k \in 1..Len(reads) |->
                                    IterLog("deref", V, c, top, reads[k], 0)]))}

\* ------------------------------------------------------------- state
VARIABLES
    pc,         \* "start": no Stream yet; "built": a Stream exists; "done": a terminal call has ended
    source,     \* how object 0 was built: Stream::of(data) or Stream::range(Begin, End)
    chain,      \* the view adaptors of objects 1..Len(chain), each over the one before
    discarded,  \* the StreamImpl objects (chain positions, 0 for object 0) already destroyed
    buildLog,   \* user-function invocations made inside combinator calls
    evalLog,    \* user-function invocations made inside the terminal call
    reads,      \* positions of the receiver's view the terminal call dereferenced
    term,       \* the terminal call made
    result,     \* how it ended
    ub          \* the program has executed undefined behaviour

vars == <<pc, source, chain, discarded, buildLog, evalLog, reads, term, result, ub>>

NoSource == [Begin |-> 0, End |-> 0, kind |-> "none", data |-> <<>>]
NoTerm == Term("none", "", 0)

Top == Len(chain)

\* Combinator calls made so far.
Calls == IF chain = <<>> THEN 0 ELSE chain[Len(chain)].call

\* Object 0 holds an iota_view whose bound is not reachable.
Broken == source.kind = "range" /\ ~IotaDefined(RangeView(source.Begin, source.End))

\* Elements of object 0's view.
Src ==
    IF source.kind = "range"
    THEN (IF Broken THEN <<>> ELSE IotaElems(RangeView(source.Begin, source.End)))
    ELSE source.data

\* The newest Stream points into a destroyed object.
Dangling == Needs(source.kind = "of", chain, Top) \cap discarded # {}

\* What a traversal may find in object 0: its elements; anything when it
\* reads destroyed objects; nothing or the wrapped walk when the iota_view
\* is broken.
Seen ==
    IF Broken THEN {<<>>, WrappedElems(RangeView(source.Begin, source.End))}
    ELSE IF Dangling \/ ub THEN InputSeqs \cup {Src}
    ELSE {Src}

Init ==
    /\ pc = "start"
    /\ source = NoSource
    /\ chain = <<>>
    /\ discarded = {}
    /\ buildLog = <<>>
    /\ evalLog = <<>>
    /\ reads = <<>>
    /\ term = NoTerm
    /\ result = NoResult
    /\ ub = FALSE

\* ------------------------------------------------------------- construction
\* Stream::of(Value): StreamImpl{Value}, which copies the collection.
of(Value) ==
    /\ pc = "start"
    /\ source' = [Begin |-> 0, End |-> 0, kind |-> "of", data |-> Value]
    /\ pc' = "built"
    /\ UNCHANGED <<chain, discarded, buildLog, evalLog, reads, term, result, ub>>

\* Stream::range(Begin, End): StreamImpl{std::views::iota(Begin, End + 1)}.
range(Begin, End) ==
    /\ pc = "start"
    /\ source' = [Begin |-> Begin, End |-> End, kind |-> "range", data |-> <<>>]
    /\ pc' = "built"
    /\ UNCHANGED <<chain, discarded, buildLog, evalLog, reads, term, result, ub>>

\* ------------------------------------------------------------- combinators
\* A combinator call on the newest Stream: the stages of the returned
\* Stream, the temporaries the call destroyed before returning, and the
\* user-function invocations it made.
Extend(stages, temps, invoked, traversed) ==
    /\ pc = "built"
    /\ Calls < MaxChain
    /\ chain' = chain \o stages
    /\ discarded' = discarded \cup temps
    /\ buildLog' = buildLog \o invoked
    /\ ub' = (ub \/ (traversed /\ (Dangling \/ Broken)))
    /\ UNCHANGED <<pc, source, evalLog, reads, term, result>>

\* auto NewView = View | adaptor; return StreamImpl{NewView};
Adapt(op, fn, neg, n) ==
    Extend(<<Stage(op, fn, neg, n, 0, Calls + 1)>>, {}, <<>>, FALSE)

IntElems == ElemType(chain, Top) = "int"

Map(Func) == IntElems /\ Adapt("transform", Func, FALSE, 0)

\* Each(Func): Map of a lambda that calls Func(Value) and returns Value.
Each == IntElems /\ Adapt("transform", EachLambda, FALSE, 0)

Filter(Func) == IntElems /\ Adapt("filter", Func, FALSE, 0)

\* Reject(Func): filter of the lambda !Func(Value).
Reject(Func) == IntElems /\ Adapt("filter", Func, TRUE, 0)

Take(Count) == Adapt("take", "", FALSE, Count)

SplitBy(Token) == IntElems /\ Adapt("split", "", FALSE, Token)

Keys == ElemType(chain, Top) = "pair" /\ Adapt("keys", "", FALSE, 0)

Values == ElemType(chain, Top) = "pair" /\ Adapt("values", "", FALSE, 0)

\* WithIndex: Count() is called at once, to bound the iota; the lambda
\* captures `this`.
WithIndex ==
    /\ IntElems
    /\ Extend(<<Stage("index", "", FALSE, 0, Top, Calls + 1)>>, {},
              DistanceLog(Views(Src, chain), chain, Top), TRUE)

\* ChunkEvery(Count): distance(View) is called at once; the lambda captures
\* `this` and Count.
ChunkEvery(Count) ==
    /\ IntElems
    /\ Extend(<<Stage("chunk", "", FALSE, Count, Top, Calls + 1)>>, {},
              DistanceLog(Views(Src, chain), chain, Top), TRUE)

\* Uniq: WithIndex().Map(count-before).Reject(count > 0).Map(value); the
\* three Streams in between are temporaries of the call.
Uniq ==
    /\ IntElems
    /\ Extend(<<Stage("index", "", FALSE, 0, Top, Calls + 1),
                Stage("transform", UniqCountLambda, FALSE, 0, Top, Calls + 1),
                Stage("filter", UniqDupLambda, TRUE, 0, 0, Calls + 1),
                Stage("transform", UniqValueLambda, FALSE, 0, 0, Calls + 1)>>,
              {Top + 1, Top + 2, Top + 3},
              DistanceLog(Views(Src, chain), chain, Top), TRUE)

\* A StreamImpl other than the newest goes out of scope.
Discard(k) ==
    /\ pc = "built"
    /\ k \in (0..(Top - 1)) \ discarded
    /\ discarded' = discarded \cup {k}
    /\ UNCHANGED <<pc, source, chain, buildLog, evalLog, reads, term, result, ub>>

\* ------------------------------------------------------------- terminal calls
\* Ways the call can end that belong to undefined behaviour alone.
UBOutcomes(t) ==
    IF Broken \/ Dangling \/ ub
    THEN {Crash} \cup (IF t.op \in {"Collect", "Run"} /\ Broken /\ Sized(chain, Top)
                       THEN {Error} ELSE {})
    ELSE {}

Terminal(t) ==
    /\ pc = "built"
    /\ \E g \in Seen :
         /\ result' \in TermOutcomes(t, g, chain) \cup UBOutcomes(t)
         /\ evalLog' \in TermLogs(t, g, chain)
         /\ reads' = TermReads(t, g, chain)
         /\ ub' = (ub \/ Broken \/ Dangling
                      \/ (t.op \in {"Min", "Max"} /\ Elems(g, chain, Top) = <<>>))
    /\ term' = t
    /\ pc' = "done"
    /\ UNCHANGED <<source, chain, discarded, buildLog>>

Collect == Terminal(Term("Collect", "", 0))

\* Run: Collect(), result dropped.
Run == Terminal(Term("Run", "", 0))

Sum == IntElems /\ Terminal(Term("Sum", "", 0))

Min == IntElems /\ Terminal(Term("Min", "", 0))

Max == IntElems /\ Terminal(Term("Max", "", 0))

Count == Terminal(Term("Count", "", 0))

CountOf(Value) == IntElems /\ Terminal(Term("CountValue", "", Value))

Contains(Value) == IntElems /\ Terminal(Term("Contains", "", Value))

All(Func) == IntElems /\ Terminal(Term("All", Func, 0))

Any(Func) == IntElems /\ Terminal(Term("Any", Func, 0))

\* ------------------------------------------------------------- specifications
Construct ==
    \/ \E Value \in InputSeqs : of(Value)
    \/ \E Begin \in RangeBegins, End \in RangeEnds : Begin <= End + 1 /\ range(Begin, End)

Combine ==
    \/ \E Func \in MapFns : Map(Func)
    \/ Each
    \/ \E Func \in PredFns : Filter(Func)
    \/ \E Func \in PredFns : Reject(Func)
    \/ \E n \in TakeCounts : Take(n)
    \/ \E Token \in Vals : SplitBy(Token)
    \/ Keys
    \/ Values
    \/ WithIndex
    \/ Uniq
    \/ \E n \in ChunkSizes : ChunkEvery(n)

Evaluate ==
    \/ Collect
    \/ Run
    \/ Sum
    \/ Min
    \/ Max
    \/ Count
    \/ \E Value \in Vals : CountOf(Value)
    \/ \E Value \in Vals : Contains(Value)
    \/ \E Func \in PredFns : All(Func)
    \/ \E Func \in PredFns : Any(Func)

\* A chain written as one expression: every temporary lives until the
\* terminal call returns.
Next == Construct \/ Combine \/ Evaluate

Spec == Init /\ [][Next]_vars

\* Chains that end in Collect.
NextCollect == Construct \/ Combine \/ Collect

SpecCollect == Init /\ [][NextCollect]_vars

\* Chains that end in All or Any.
NextAllAny ==
    \/ Construct
    \/ Combine
    \/ \E Func \in PredFns : All(Func)
    \/ \E Func \in PredFns : Any(Func)

SpecAllAny == Init /\ [][NextAllAny]_vars

\* Stream::range on any pair of ints, collected at once.
NextRange ==
    \/ \E Begin \in Ints, End \in Ints : range(Begin, End)
    \/ Collect

SpecRange == Init /\ [][NextRange]_vars

\* Streams kept in variables: a receiver may go out of scope before the
\* Stream derived from it is collected.
NextLife ==
    \/ Construct
    \/ Combine
    \/ \E k \in 0..(4 * MaxChain) : Discard(k)
    \/ Collect

SpecLife == Init /\ [][NextLife]_vars

\* ------------------------------------------------------------- properties
Done == pc = "done"

\* Position of the receiver of the last combinator call, and its elements.
LastRecv == Top - Cardinality({d \in 1..Top : chain[d].call = Calls})
Input == Elems(Src, chain, LastRecv)
Output == Elems(Src, chain, Top)

LastIsUniq == Top > 0 /\ chain[Top].fn = UniqValueLambda
LastIsChunk == Top > 0 /\ chain[Top].op = "chunk"
LastIsSplit == Top > 0 /\ chain[Top].op = "split"

\* The inclusive sequence lo, lo + 1, ..., hi; empty when hi < lo.
Inclusive(lo, hi) == [i \in 1..(hi - lo + 1) |-> lo + i - 1]

\* C1: Stream::range(begin, end).Collect() returns begin, ..., end when
\* begin <= end and the empty sequence when end < begin, for every pair of
\* ints; it never errors and never returns a wrapped sequence.
C1_RangeCollect ==
    (Done /\ source.kind = "range" /\ chain = <<>> /\ term.op = "Collect")
        => result = Returned(Inclusive(source.Begin, source.End))

\* The elements of xs whose value does not occur earlier in xs, in order.
FirstOccurrences(xs) ==
    LET keep == SelectSeq([i \in 1..Len(xs) |-> i],
                          LAMBDA i : \A j \in 1..(i - 1) : xs[j] # xs[i])
    IN [k \in 1..Len(keep) |-> xs[keep[k]]]

\* C2: Uniq().Collect() returns each distinct value of the input once, in
\* order of first appearance: position i is kept iff its value does not
\* occur among positions [0, i).
C2_UniqFirstOccurrences ==
    (Done /\ term.op = "Collect" /\ LastIsUniq)
        => result = Returned(FirstOccurrences(Input))

C2_Witness ==
    /\ Done /\ term.op = "Collect" /\ LastIsUniq
    /\ source.kind = "of" /\ Calls = 1
    /\ source.data = <<1, 2, 1>>
    /\ result = Returned(<<1, 2>>)

\* ceil(n / s), written without the code's formula.
CeilDiv(n, s) == CHOOSE k \in 0..n : k * s >= n /\ (k = 0 \/ (k - 1) * s < n)

\* C3: ChunkEvery(s).Collect() on an input of length n returns ceil(n/s)
\* groups whose concatenation is the input; every group but the last has s
\* elements, the last has n mod s when s does not divide n and s otherwise,
\* and no group is empty.
C3_ChunkEveryPartition ==
    (Done /\ term.op = "Collect" /\ LastIsChunk) =>
        LET n == Len(Input)
            size == chain[Top].n
            groups == result.val
        IN /\ result.kind = "value"
           /\ Len(groups) = CeilDiv(n, size)
           /\ Concat(groups) = Input
           /\ \A k \in 1..(Len(groups) - 1) : Len(groups[k]) = size
           /\ Len(groups) > 0 =>
                Len(groups[Len(groups)]) = (IF n % size = 0 THEN size ELSE n % size)
           /\ \A k \in 1..Len(groups) : groups[k] # <<>>

C3_Witness ==
    /\ Done /\ term.op = "Collect" /\ LastIsChunk
    /\ chain[Top].n = 2 /\ Len(Input) = 3
    /\ Len(result.val) = 2 /\ Len(result.val[2]) = 1

\* The groups with the token put back between consecutive groups.
RECURSIVE Rejoin(_, _)
Rejoin(groups, Token) ==
    IF groups = <<>> THEN <<>>
    ELSE IF Len(groups) = 1 THEN groups[1]
    ELSE groups[1] \o <<Token>> \o Rejoin(Tail(groups), Token)

SplitShape(groups, input, Token) ==
    /\ Len(groups) = CountValueElems(input, Token) + 1
    /\ \A k \in 1..Len(groups) : \A i \in 1..Len(groups[k]) : groups[k][i] # Token
    /\ Rejoin(groups, Token) = input

\* C4, as claimed: SplitBy(token).Collect() on an input with k occurrences of
\* token returns k + 1 groups, none containing token, which rejoined with the
\* token give back the input.
C4_SplitAsClaimed ==
    (Done /\ term.op = "Collect" /\ LastIsSplit)
        => result.kind = "value" /\ SplitShape(result.val, Input, chain[Top].n)

\* C4, amended: that holds of every non-empty input (so a leading or
\* trailing token gives an empty group there, and two tokens in a row give an
\* empty group between them); an empty input gives no group at all.
C4_SplitAmended ==
    (Done /\ term.op = "Collect" /\ LastIsSplit) =>
        /\ result.kind = "value"
        /\ Input # <<>> => SplitShape(result.val, Input, chain[Top].n)
        /\ Input = <<>> => result.val = <<>>

C4_Witness ==
    /\ Done /\ term.op = "Collect" /\ LastIsSplit
    /\ Input = <<1, 2, 1>> /\ chain[Top].n = 1
    /\ result.val = << <<>>, <<2>>, <<>> >>

\* The arguments of the invocations in log that stage d made.
ArgsOf(log, d) ==
    LET mine == SelectSeq(log, LAMBDA ev : ev.stage = d)
    IN [k \in 1..Len(mine) |-> mine[k].arg]

EachStages == {d \in 1..Top : chain[d].op = "transform" /\ chain[d].fn = EachLambda}

\* C5: whatever follows Each(f) in the chain, Run or Collect invokes f once
\* for every upstream element, in upstream order, and f is not invoked
\* before the terminal call.
C5_EachOncePerElement ==
    (Done /\ term.op \in {"Run", "Collect"}) =>
        \A d \in EachStages :
            /\ ArgsOf(evalLog, d) = Elems(Src, chain, d - 1)
            /\ ArgsOf(buildLog, d) = <<>>

\* C6: Min / Max on an empty Stream end in an explicit error and read
\* nothing outside the sequence; on a non-empty one they return the least
\* and the greatest element.
C6_MinMaxEmptyIsError ==
    (Done /\ term.op \in {"Min", "Max"}) =>
        IF Output = <<>>
        THEN result = Error /\ reads = <<>>
        ELSE /\ result.kind = "value"
             /\ \E i \in 1..Len(Output) : Output[i] = result.val
             /\ \A i \in 1..Len(Output) :
                  IF term.op = "Min" THEN result.val <= Output[i] ELSE Output[i] <= result.val

\* C7: All(p) is true iff every element satisfies p and Any(p) iff some
\* element does; so on an empty Stream All is true and Any is false.
C7_AllAny ==
    (Done /\ term.op \in {"All", "Any"}) =>
        result = Returned(IF term.op = "All"
                          THEN \A i \in 1..Len(Output) : ApplyFn(term.fn, Output[i])
                          ELSE \E i \in 1..Len(Output) : ApplyFn(term.fn, Output[i]))

C7_Witness ==
    /\ Done /\ term.op = "All" /\ Output = <<>> /\ Src # <<>>
    /\ result = Returned(TRUE)

\* C8: a combinator call invokes no user-supplied function; those are
\* invoked only inside the traversal of a terminal call.
C8_CombinatorsAreLazy == buildLog = <<>>

\* First position of e that satisfies the terminal call's test, 0 if none.
FirstMatch(e) ==
    LET hits == {i \in 1..Len(e) :
                   IF term.op = "Any" THEN ApplyFn(term.fn, e[i]) ELSE e[i] = term.n}
    IN IF hits = {} THEN 0 ELSE CHOOSE i \in hits : \A k \in hits : i <= k

\* C9: Any(pred) and Contains(value) stop at the first match: no element
\* after it is examined, and pred is invoked on none.
C9_ShortCircuit ==
    (Done /\ term.op \in {"Any", "Contains"} /\ FirstMatch(Output) > 0) =>
        /\ \A k \in 1..Len(reads) : reads[k] <= FirstMatch(Output)
        /\ Len(ArgsOf(evalLog, Top + 1)) <= FirstMatch(Output)

\* C10: the Stream a combinator returns does not refer to the receiver
\* object: collected after the receiver was destroyed, it touches no
\* destroyed object and gives the result it gives while the receiver lives.
C10_IndependentOfReceiver ==
    (Done /\ term.op = "Collect") => ~ub /\ result = Returned(Output)

====
